---- MODULE Spec2Model ----
(***************************************************************************)
(* A model of p4utils/p4run.py: the AppRunner that reads a topology        *)
(* description, normalises its links (parse_links), starts the emulated    *)
(* network and then programs hosts (program_hosts) and switches            *)
(* (program_switches).                                                     *)
(*                                                                         *)
(* Python strings are sequences of one-character strings, so that the      *)
(* lexicographic comparison, str(), int() and '%' formatting of the source *)
(* are computed and not assumed.                                           *)
(***************************************************************************)
EXTENDS Integers, Sequences, FiniteSets, TLC

VARIABLES
    unparsed_links,   \* parse_links' argument: the raw link tuples
    links_result,     \* what parse_links(unparsed_links) produced
    swapped_result,   \* what parse_links produced for the same tuples, endpoints exchanged
    conf,             \* self.conf: the loaded configuration
    backend,          \* what the topology class and the emulator assign to each host
    pc,               \* position of main()/run_app
    exc,              \* the exception that ended the run ("none" while there is none)
    exit_code,        \* the process' exit status (-1 while running)
    self_hosts,       \* self.hosts
    self_switches,    \* self.switches
    self_links,       \* self.links
    topo,             \* self.topo: hosts() and hosts_info
    net,              \* self.net: the live hosts, their first interface and its link
    net_state,        \* "none", "created", "started" or "stopped"
    host_idx,         \* program_hosts' loop position in topo.hosts()
    cmds,             \* per host, the commands issued to it, in order
    arp,              \* per host, its static ARP table
    routes,           \* per host, its routes
    switch_cli,       \* 'switch_cli' of the configuration as program_switches read it
    sw_todo,          \* switches program_switches has still to visit
    sw_reads,         \* per switch, how often its command file was read
    observed,         \* per thrift port, the control-plane entries it received, in order
    session,          \* "none", "active" or "exited": the interactive CLI
    cli_args,         \* cli_enabled and conf['cli'] as run_app read them
    history,          \* the calls of run_app that have returned, in order
    runs              \* how many times program_hosts has been entered

link_vars == <<unparsed_links, links_result, swapped_result>>

run_vars == <<conf, backend, pc, exc, exit_code, self_hosts, self_switches, self_links,
              topo, net, net_state, host_idx, cmds, arp, routes, switch_cli, sw_todo,
              sw_reads, observed, session, cli_args, history, runs>>

vars == <<unparsed_links, links_result, swapped_result, conf, backend, pc, exc, exit_code,
          self_hosts, self_switches, self_links, topo, net, net_state, host_idx, cmds, arp,
          routes, switch_cli, sw_todo, sw_reads, observed, session, cli_args, history,
          runs>>

----------------------------------------------------------------------------
(* Bounds of the model. *)

\* how many further link tuples follow the first one in parse_links' argument
MaxExtraLinks == 1

\* how many hosts a topology has at most
MaxHosts == 2

\* how many times program_hosts is run on the same started network
MaxRuns == 2

----------------------------------------------------------------------------
(* Python strings and numbers. *)

Digits == <<"0", "1", "2", "3", "4", "5", "6", "7", "8", "9">>

DigitChars == {Digits[i] : i \in 1..10}

DigitVal(c) == (CHOOSE i \in 1..10 : Digits[i] = c) - 1

\* ord(c) for the characters node names are made of
Ord(c) == IF c \in DigitChars THEN 48 + DigitVal(c)
          ELSE IF c = "h" THEN 104
          ELSE IF c = "s" THEN 115
          ELSE 0

\* a > b on Python strings: lexicographic by character code, a proper prefix is smaller
RECURSIVE StrGreater(_, _)
StrGreater(a, b) ==
    IF a = <<>> THEN FALSE
    ELSE IF b = <<>> THEN TRUE
    ELSE IF Ord(Head(a)) # Ord(Head(b)) THEN Ord(Head(a)) > Ord(Head(b))
    ELSE StrGreater(Tail(a), Tail(b))

\* str(n) for n >= 0
RECURSIVE str(_)
str(n) == IF n < 10 THEN <<Digits[n + 1]>>
          ELSE str(n \div 10) \o <<Digits[(n % 10) + 1]>>

\* whether int(s) succeeds (it raises ValueError otherwise)
IsInt(s) == s # <<>> /\ \A i \in 1..Len(s) : s[i] \in DigitChars

\* int(s) for a string of decimal digits
RECURSIVE int(_)
int(s) == IF Len(s) = 1 THEN DigitVal(s[1])
          ELSE 10 * int(SubSeq(s, 1, Len(s) - 1)) + DigitVal(s[Len(s)])

\* JSON values of a link tuple's optional positions: null, a string, a number
Null == [t |-> "null", s |-> <<>>, n |-> 0]

Str(s) == [t |-> "str", s |-> s, n |-> 0]

Num(n) == [t |-> "num", s |-> <<>>, n |-> n]

\* Python truthiness: None, '' and 0 are falsy
Truthy(v) == CASE v.t = "null" -> FALSE
               [] v.t = "str" -> v.s # <<>>
               [] v.t = "num" -> v.n # 0

----------------------------------------------------------------------------
(* AppRunner.formatLatency and AppRunner.parse_links. *)

formatLatency_NoUnit(latency) ==
    IF latency.t = "str" THEN latency ELSE Str(str(latency.n))

formatLatency(latency) ==
    IF latency.t = "str" THEN latency ELSE Str(str(latency.n) \o <<"m", "s">>)

\* the loop body of parse_links up to the host check: the record built for one tuple
link_dict_NoSwap(link) ==
    [node1 |-> link[1],
     node2 |-> link[2],
     latency |-> IF Len(link) > 2 /\ Truthy(link[3])
                 THEN formatLatency(link[3]) ELSE Str(<<"0", "m", "s">>),
     bandwidth |-> IF Len(link) > 3 /\ Truthy(link[4]) THEN link[4] ELSE Null,
     weight |-> IF Len(link) > 4 /\ Truthy(link[5]) THEN link[5] ELSE Num(1)]

link_dict_NoTruthy(link) ==
    LET swap == StrGreater(link[1], link[2]) IN
    [node1 |-> IF swap THEN link[2] ELSE link[1],
     node2 |-> IF swap THEN link[1] ELSE link[2],
     latency |-> IF Len(link) > 2
                 THEN formatLatency(link[3]) ELSE Str(<<"0", "m", "s">>),
     bandwidth |-> IF Len(link) > 3 THEN link[4] ELSE Null,
     weight |-> IF Len(link) > 4 THEN link[5] ELSE Num(1)]

link_dict(link) ==
    LET swap == StrGreater(link[1], link[2]) IN
    [node1 |-> IF swap THEN link[2] ELSE link[1],
     node2 |-> IF swap THEN link[1] ELSE link[2],
     latency |-> IF Len(link) > 2 /\ Truthy(link[3])
                 THEN formatLatency(link[3]) ELSE Str(<<"0", "m", "s">>),
     bandwidth |-> IF Len(link) > 3 /\ Truthy(link[4]) THEN link[4] ELSE Null,
     weight |-> IF Len(link) > 4 /\ Truthy(link[5]) THEN link[5] ELSE Num(1)]

\* the assertion of parse_links: a record whose node1 is a host needs a switch as node2
host_check_Off(d) == TRUE

host_check(d) == d.node1[1] = "h" => d.node2[1] = "s"

\* parse_links from tuple i on, links being the records appended so far; the
\* AssertionError leaves the call without a return value
RECURSIVE parse_from(_, _, _)
parse_from(unparsed, i, links) ==
    IF i > Len(unparsed) THEN [err |-> "none", links |-> links]
    ELSE IF ~host_check(link_dict(unparsed[i]))
         THEN [err |-> "AssertionError", links |-> <<>>]
         ELSE parse_from(unparsed, i + 1, Append(links, link_dict(unparsed[i])))

parse_links(unparsed) == parse_from(unparsed, 1, <<>>)

----------------------------------------------------------------------------
(* Inputs of parse_links. *)

Host(n) == <<"h">> \o str(n)

Switch(n) == <<"s">> \o str(n)

LinkNodes == {Host(1), Host(2), Host(10), Switch(1)}

LatencyValues == {Null, Str(<<>>), Num(0), Num(5), Str(<<"5", "m", "s">>), Str(<<"1", "0">>)}

BandwidthValues == {Num(0), Num(10)}

WeightValues == {Str(<<>>), Num(3)}

RawLinks ==
    {<<a, b>> : a \in LinkNodes, b \in LinkNodes}
    \cup {<<a, b, l>> : a \in LinkNodes, b \in LinkNodes, l \in LatencyValues}
    \cup {<<e[1], e[2], l, bw>> :
            e \in LinkNodes \X LinkNodes, l \in LatencyValues, bw \in BandwidthValues}
    \cup {<<e[1], e[2], x[1], x[2], x[3]>> :
            e \in LinkNodes \X LinkNodes,
            x \in LatencyValues \X BandwidthValues \X WeightValues}

\* the tuples that may follow the first: a valid one and a host-to-host one
ExtraLinks == {<<Switch(1), Host(2)>>, <<Host(2), Host(1), Num(5)>>}

RECURSIVE SeqsUpTo(_, _)
SeqsUpTo(S, n) ==
    IF n = 0 THEN {<<>>}
    ELSE SeqsUpTo(S, n - 1)
         \cup {Append(q, x) : q \in {r \in SeqsUpTo(S, n - 1) : Len(r) = n - 1}, x \in S}

\* the same tuple declared the other way round
SwapEnds(link) == [link EXCEPT ![1] = link[2], ![2] = link[1]]

SwapAll(unparsed) == [i \in 1..Len(unparsed) |-> SwapEnds(unparsed[i])]

----------------------------------------------------------------------------
(* Addresses. An IPv4 address is its four octets. *)

IpInt(ip) == ((ip[1] * 256 + ip[2]) * 256 + ip[3]) * 256 + ip[4]

RECURSIVE Pow2(_)
Pow2(k) == IF k = 0 THEN 1 ELSE 2 * Pow2(k - 1)

\* ip_interface(u"%s/%d" % (ip, mask)).network.compressed: the network address
\* (host bits cleared) and the prefix length
network_IgnoreMask(ip, mask) == <<IpInt(ip) - (IpInt(ip) % Pow2(8)), 0>>

network(ip, mask) == <<IpInt(ip) - (IpInt(ip) % Pow2(32 - mask)), mask>>

\* host_id = int(host_name[1:]); sw_ip = '10.0.%d.254' % host_id
sw_ip_FirstDigit(host_name) == <<10, 0, DigitVal(host_name[2]), 254>>

sw_ip(host_name) == <<10, 0, int(Tail(host_name)), 254>>

----------------------------------------------------------------------------
(* The configurations and emulator facts a run starts from. *)

HostNums == {1, 2, 10}

Switches == {Switch(1), Switch(2)}

Subnets == {1, 2}

Masks == {16, 24}

\* the command files on disk and the entries each holds, in file order
Files == {"s1-commands.txt", "s2-commands.txt"}

FileEntries(f) == IF f = "s1-commands.txt" THEN <<"A", "B", "C">> ELSE <<"C", "A">>

\* a switch's properties: its 'cli_input' file, or "none" when it declares none
SwitchDicts ==
    {[sw \in Switches |-> IF sw = Switch(1) THEN "s1-commands.txt" ELSE "s2-commands.txt"],
     [sw \in Switches |-> IF sw = Switch(1) THEN "s1-commands.txt" ELSE "none"],
     [sw \in Switches |-> "none"]}

RECURSIVE SortedSeq(_)
SortedSeq(S) ==
    IF S = {} THEN <<>>
    ELSE LET m == CHOOSE x \in S : \A y \in S : x <= y
         IN <<m>> \o SortedSeq(S \ {m})

HostSets == {S \in SUBSET HostNums : S # {} /\ Cardinality(S) <= MaxHosts}

Names(S) == {Host(n) : n \in S}

NoConf == [topology |-> FALSE, hosts |-> <<>>, switches |-> <<>>, links |-> <<>>]

\* the interface of host n and the switch-side interface at the other end of its link
HostIntf(n) == [node |-> Host(n), mac |-> <<"host", n>>]

PeerIntf(sw, n) == [node |-> sw, mac |-> <<"switch", n>>]

----------------------------------------------------------------------------
(* State after the interpreter has started main(), before AppRunner(...) *)

Idle ==
    /\ pc = "main"
    /\ exc = "none"
    /\ exit_code = -1
    /\ self_hosts = <<>>
    /\ self_switches = <<>>
    /\ self_links = <<>>
    /\ topo = [hosts |-> <<>>, hosts_info |-> <<>>]
    /\ net = <<>>
    /\ net_state = "none"
    /\ host_idx = 0
    /\ cmds = <<>>
    /\ arp = <<>>
    /\ routes = <<>>
    /\ switch_cli = "unread"
    /\ sw_todo = {}
    /\ sw_reads = <<>>
    /\ observed = <<>>
    /\ session = "none"
    /\ cli_args = [read |-> FALSE, cli_enabled |-> FALSE, conf_cli |-> FALSE]
    /\ history = <<>>
    /\ runs = 0

NoLinkInput ==
    /\ unparsed_links = <<>>
    /\ links_result = [err |-> "unset", links |-> <<>>]
    /\ swapped_result = [err |-> "unset", links |-> <<>>]

\* the switch that is not sw
OtherSwitch(sw) == CHOOSE o \in Switches : o # sw

\* a configuration without a 'topology' block, or one with hosts attached to
\* switches, each link declared host first or switch first, optionally followed
\* by a host-to-host link (bad) or by a second link of the first host, to the
\* other switch (multihomed)
InitConf ==
    \/ /\ conf = NoConf
       /\ backend = <<>>
    \/ \E S \in HostSets :
       \E attach \in [S -> Switches], subnet \in [S -> Subnets], mask \in [S -> Masks],
          host_first \in [S -> BOOLEAN], switches \in SwitchDicts, bad \in BOOLEAN,
          multihomed \in BOOLEAN :
           LET order == SortedSeq(S)
               good == [i \in 1..Len(order) |->
                          IF host_first[order[i]]
                          THEN <<Host(order[i]), attach[order[i]]>>
                          ELSE <<attach[order[i]], Host(order[i]), Num(5)>>]
           IN /\ ~(bad /\ multihomed)
              /\ conf = [topology |-> TRUE,
                         hosts |-> [i \in 1..Len(order) |-> Host(order[i])],
                         switches |-> switches,
                         links |-> IF bad
                                   THEN good \o <<<<Host(2), Host(1)>>>>
                                   ELSE IF multihomed
                                   THEN good \o <<<<Host(order[1]),
                                                    OtherSwitch(attach[order[1]])>>>>
                                   ELSE good]
              /\ backend = [h \in Names(S) |->
                              LET n == CHOOSE k \in S : Host(k) = h
                              IN [ip |-> <<10, 0, subnet[n], n>>,
                                  mask |-> mask[n],
                                  host_is_intf1 |-> host_first[n],
                                  h_iface |-> HostIntf(n),
                                  peer |-> PeerIntf(attach[n], n)]]

Init == NoLinkInput /\ Idle /\ InitConf

----------------------------------------------------------------------------
(* main() and AppRunner.__init__ *)

\* topology = self.conf.get('topology', False); if not topology: raise
topology_missing_Never(c) == FALSE

topology_missing(c) == ~c.topology

\* an exception nothing catches: neither run_app nor main() has a try statement,
\* so the traceback ends the process with status 1
Raise(e) ==
    /\ exc' = e
    /\ pc' = "raised"
    /\ exit_code' = 1

\* AppRunner(...): load the topology block and parse its links; an exception
\* leaves main() before app.run_app()
Construct ==
    /\ pc = "main"
    /\ IF topology_missing(conf)
       THEN /\ Raise("Exception")
            /\ UNCHANGED <<self_hosts, self_switches, self_links>>
       ELSE LET parsed == parse_links(conf.links)
            IN IF parsed.err # "none"
               THEN /\ Raise(parsed.err)
                    /\ UNCHANGED <<self_hosts, self_switches, self_links>>
               ELSE /\ self_hosts' = conf.hosts
                    /\ self_switches' = conf.switches
                    /\ self_links' = parsed.links
                    /\ pc' = "constructed"
                    /\ UNCHANGED <<exc, exit_code>>
    /\ UNCHANGED <<conf, backend, topo, net, net_state, host_idx, cmds, arp, routes,
                   switch_cli, sw_todo, sw_reads, observed, session, cli_args, history,
                   runs>>
    /\ UNCHANGED link_vars

----------------------------------------------------------------------------
(* AppRunner.create_network and net.start() *)

Range(f) == {f[x] : x \in DOMAIN f}

\* the links that attach host h to a switch
switch_links(h, links) == {k \in 1..Len(links) : links[k].node1 = h}

\* the topology class refuses a host with no link or with more than one link to
\* a switch
topology_error_Never(hosts, links) == FALSE

topology_error(hosts, links) ==
    \E h \in Range(hosts) : Cardinality(switch_links(h, links)) # 1

\* the switch a host's link leads to: the topology class reads it off the parsed
\* links, where a host is node1 of its link
SwitchOf(h, links) ==
    LET i == CHOOSE k \in 1..Len(links) :
                 /\ links[k].node1 = h
                 /\ \A j \in 1..Len(links) : links[j].node1 = h => j <= k
    IN links[i].node2

\* self.app_topo(self.hosts, ..., self.links, ...): hosts() and hosts_info
AppTopo(hosts, links) ==
    [hosts |-> hosts,
     hosts_info |-> [h \in Range(hosts) |->
                       [sw |-> SwitchOf(h, links),
                        ip |-> backend[h].ip,
                        mask |-> backend[h].mask,
                        mac |-> backend[h].h_iface.mac]]]

\* self.app_mininet(topo=...): per host its address, its first interface and the
\* link object that interface belongs to
Mininet(hosts) ==
    [h \in Range(hosts) |->
       [IP |-> backend[h].ip,
        h_iface |-> backend[h].h_iface,
        link |-> IF backend[h].host_is_intf1
                 THEN [intf1 |-> backend[h].h_iface, intf2 |-> backend[h].peer]
                 ELSE [intf1 |-> backend[h].peer, intf2 |-> backend[h].h_iface]]]

\* a thrift port per switch, assigned by the emulator
thrift_port(sw_name) == 9090 + int(Tail(sw_name)) - 1

Ports == {thrift_port(sw) : sw \in Switches}

\* except CompilationError: self.logger("Compilation Error"); sys.exit(0)
compilation_error_status == 0

\* create_network: compile the P4 programs (CompilationError ends the process
\* through sys.exit), then build the topology and the network objects
CreateNetwork ==
    /\ pc = "constructed"
    /\ \E compiled \in BOOLEAN :
         IF ~compiled
         THEN /\ pc' = "exited"
              /\ exit_code' = compilation_error_status
              /\ UNCHANGED <<exc, topo, net, net_state, cmds, arp, routes, sw_reads,
                             observed, history>>
         ELSE IF topology_error(self_hosts, self_links)
         THEN /\ Raise("TopologyError")
              /\ UNCHANGED <<topo, net, net_state, cmds, arp, routes, sw_reads, observed,
                             history>>
         ELSE /\ topo' = AppTopo(self_hosts, self_links)
              /\ net' = Mininet(self_hosts)
              /\ net_state' = "created"
              /\ cmds' = [h \in Range(self_hosts) |-> <<>>]
              /\ arp' = [h \in Range(self_hosts) |-> {}]
              /\ routes' = [h \in Range(self_hosts) |-> {}]
              /\ sw_reads' = [sw \in DOMAIN self_switches |-> 0]
              /\ observed' = [p \in Ports |-> <<>>]
              /\ history' = Append(history, "create_network")
              /\ pc' = "created"
              /\ UNCHANGED <<exc, exit_code>>
    /\ UNCHANGED <<conf, backend, self_hosts, self_switches, self_links, host_idx,
                   switch_cli, sw_todo, session, cli_args, runs>>
    /\ UNCHANGED link_vars

\* self.net.start(); sleep(1); then program_hosts is entered
NetStart_SkipHosts ==
    /\ pc = "created"
    /\ net_state' = "started"
    /\ host_idx' = Len(topo.hosts) + 1
    /\ runs' = 1
    /\ history' = Append(history, "net.start")
    /\ pc' = "program_hosts"
    /\ UNCHANGED <<conf, backend, exc, exit_code, self_hosts, self_switches, self_links,
                   topo, net, cmds, arp, routes, switch_cli, sw_todo, sw_reads, observed,
                   session, cli_args>>
    /\ UNCHANGED link_vars

NetStart ==
    /\ pc = "created"
    /\ net_state' = "started"
    /\ host_idx' = 1
    /\ runs' = 1
    /\ history' = Append(history, "net.start")
    /\ pc' = "program_hosts"
    /\ UNCHANGED <<conf, backend, exc, exit_code, self_hosts, self_switches, self_links,
                   topo, net, cmds, arp, routes, switch_cli, sw_todo, sw_reads, observed,
                   session, cli_args>>
    /\ UNCHANGED link_vars

----------------------------------------------------------------------------
(* AppRunner.program_hosts *)

\* a command issued to a host: the source line that issues it, what it does, and
\* the address and MAC it names (<<>> where it names none)
Cmd(line, op, ip, mac) == [line |-> line, op |-> op, ip |-> ip, mac |-> mac]

\* sw_iface = link.intf1 if link.intf1 != h_iface else link.intf2
sw_iface_AlwaysIntf2(link, h_iface) == link.intf2

sw_iface(link, h_iface) == IF link.intf1 # h_iface THEN link.intf1 ELSE link.intf2

\* the inner loop's test: another host, on the same switch, in the same network
is_subnet_mate_AnySwitch(host_name, other) ==
    /\ other # host_name
    /\ network(net[host_name].IP, topo.hosts_info[host_name].mask)
         = network(topo.hosts_info[other].ip, topo.hosts_info[other].mask)

is_subnet_mate(host_name, other) ==
    /\ other # host_name
    /\ topo.hosts_info[other].sw = topo.hosts_info[host_name].sw
    /\ network(net[host_name].IP, topo.hosts_info[host_name].mask)
         = network(topo.hosts_info[other].ip, topo.hosts_info[other].mask)

\* the arp commands of the inner loop, one per subnet mate, in topo.hosts() order
mate_commands(host_name) ==
    LET Mate(other) == is_subnet_mate(host_name, other)
        mates == SelectSeq(topo.hosts, Mate)
    IN [i \in 1..Len(mates) |->
          Cmd(328, "arp", topo.hosts_info[mates[i]].ip, topo.hosts_info[mates[i]].mac)]

\* the commands of one iteration of the outer loop, in the order the code issues them
host_commands_OffloadFirst(host_name) ==
    LET gw == sw_ip(host_name)
        peer == sw_iface(net[host_name].link, net[host_name].h_iface)
    IN <<Cmd(307, "rename", <<>>, <<>>),
         Cmd(311, "offload", <<>>, <<>>),
         Cmd(310, "arp", gw, peer.mac),
         Cmd(312, "route", gw, <<>>),
         Cmd(313, "default_route", gw, <<>>)>>
       \o mate_commands(host_name)

host_commands(host_name) ==
    LET gw == sw_ip(host_name)
        peer == sw_iface(net[host_name].link, net[host_name].h_iface)
    IN <<Cmd(307, "rename", <<>>, <<>>),
         Cmd(310, "arp", gw, peer.mac),
         Cmd(311, "offload", <<>>, <<>>),
         Cmd(312, "route", gw, <<>>),
         Cmd(313, "default_route", gw, <<>>)>>
       \o mate_commands(host_name)

\* arp -s: the entry for ip is set to mac, replacing an earlier entry for ip
ArpSet(table, ip, mac) == {e \in table : e.ip # ip} \cup {[ip |-> ip, mac |-> mac]}

RECURSIVE ArpAfter(_, _)
ArpAfter(table, issued) ==
    IF issued = <<>> THEN table
    ELSE ArpAfter(IF Head(issued).op = "arp"
                  THEN ArpSet(table, Head(issued).ip, Head(issued).mac)
                  ELSE table,
                  Tail(issued))

\* ip route add <ip> dev <intf>, and setDefaultRoute, which replaces the default route
RECURSIVE RoutesAfter(_, _)
RoutesAfter(table, issued) ==
    IF issued = <<>> THEN table
    ELSE RoutesAfter(CASE Head(issued).op = "route" ->
                            table \cup {[dst |-> "direct", ip |-> Head(issued).ip]}
                       [] Head(issued).op = "default_route" ->
                            {r \in table : r.dst # "default"}
                              \cup {[dst |-> "default", ip |-> Head(issued).ip]}
                       [] OTHER -> table,
                     Tail(issued))

\* the same tables kept as lists, in which an entry could stand twice. arp -s
\* overwrites the entry of an address it already holds and appends a new one
arp_s_Append(table, ip, mac) == Append(table, [ip |-> ip, mac |-> mac])

arp_s(table, ip, mac) ==
    IF \E i \in 1..Len(table) : table[i].ip = ip
    THEN [i \in 1..Len(table) |->
            IF table[i].ip = ip THEN [ip |-> ip, mac |-> mac] ELSE table[i]]
    ELSE Append(table, [ip |-> ip, mac |-> mac])

\* ip route add: a route the table already holds is refused ("File exists"), and
\* h.cmd returns the message without raising
route_add(table, ip) ==
    IF \E i \in 1..Len(table) : table[i] = [dst |-> "direct", ip |-> ip]
    THEN table
    ELSE Append(table, [dst |-> "direct", ip |-> ip])

\* setDefaultRoute: the default route is deleted, then added
set_default_route(table, ip) ==
    LET NotDefault(r) == r.dst # "default"
    IN Append(SelectSeq(table, NotDefault), [dst |-> "default", ip |-> ip])

\* the ARP list and the route list of a host after the commands of a log
RECURSIVE TablesAfter(_, _)
TablesAfter(tables, issued) ==
    IF issued = <<>> THEN tables
    ELSE LET c == Head(issued)
         IN TablesAfter(
              CASE c.op = "arp" ->
                     [tables EXCEPT !.arp = arp_s(@, c.ip, c.mac)]
                [] c.op = "route" ->
                     [tables EXCEPT !.routes = route_add(@, c.ip)]
                [] c.op = "default_route" ->
                     [tables EXCEPT !.routes = set_default_route(@, c.ip)]
                [] OTHER -> tables,
              Tail(issued))

NoTables == [arp |-> <<>>, routes |-> <<>>]

\* what the loop does after a step of a host has raised: nothing catches the
\* exception, so the loop, program_hosts and run_app are left
after_host_error(e) ==
    /\ Raise(e)
    /\ UNCHANGED host_idx

\* one iteration of "for host_name in self.topo.hosts()". The first `done` calls
\* of the body return; when done is less than their number the next one raises:
\* the lookups and int() before the first command (lines 295-301), or a call on
\* the host object
ProgramHost ==
    /\ pc = "program_hosts"
    /\ host_idx <= Len(topo.hosts)
    /\ LET host_name == topo.hosts[host_idx]
           body == host_commands(host_name)
       IN \E done \in 0..Len(body) :
            LET issued == SubSeq(body, 1, done)
            IN /\ cmds' = [cmds EXCEPT ![host_name] = @ \o issued]
               /\ arp' = [arp EXCEPT ![host_name] = ArpAfter(@, issued)]
               /\ routes' = [routes EXCEPT ![host_name] = RoutesAfter(@, issued)]
               /\ IF done = Len(body)
                  THEN /\ host_idx' = host_idx + 1
                       /\ UNCHANGED <<pc, exc, exit_code>>
                  ELSE after_host_error("ProvisioningError")
    /\ UNCHANGED <<conf, backend, self_hosts, self_switches, self_links, topo, net,
                   net_state, switch_cli, sw_todo, sw_reads, observed, session, cli_args,
                   history, runs>>
    /\ UNCHANGED link_vars

\* program_hosts called again on the started, unchanged network
RerunProgramHosts ==
    /\ pc = "program_hosts"
    /\ host_idx > Len(topo.hosts)
    /\ runs < MaxRuns
    /\ runs' = runs + 1
    /\ host_idx' = 1
    /\ UNCHANGED <<conf, backend, pc, exc, exit_code, self_hosts, self_switches,
                   self_links, topo, net, net_state, cmds, arp, routes, switch_cli,
                   sw_todo, sw_reads, observed, session, cli_args, history>>
    /\ UNCHANGED link_vars

----------------------------------------------------------------------------
(* AppRunner.program_switches *)

\* read_entries(file): the file's entries, in file order
read_entries(file) == FileEntries(file)

\* add_entries(thrift_port, entries, ...): the entries reach the switch listening
\* on thrift_port, in the order given
add_entries_Reversed(port, entries) ==
    [observed EXCEPT ![port] = @ \o [i \in 1..Len(entries) |-> entries[Len(entries) + 1 - i]]]

add_entries(port, entries) == [observed EXCEPT ![port] = @ \o entries]

\* the port the entries of sw_name are sent to
entries_port_First(sw_name) == thrift_port(Switch(1))

entries_port(sw_name) == thrift_port(sw_name)

\* if 'cli_input' not in sw_dict: continue
has_cli_input_Never(sw_dict) == FALSE

has_cli_input(sw_dict) == sw_dict # "none"

\* cli = self.conf['switch_cli'], the first statement of program_switches: whether
\* it raises KeyError for a configuration with this key present or absent
switch_cli_lookup_fails(present) == ~present

\* program_switches is entered once program_hosts has returned
ProgramSwitchesEnter ==
    /\ pc = "program_hosts"
    /\ host_idx > Len(topo.hosts)
    /\ switch_cli = "unread"
    /\ history' = Append(history, "program_hosts")
    /\ \E present \in BOOLEAN :
         IF switch_cli_lookup_fails(present)
         THEN /\ switch_cli' = "absent"
              /\ Raise("KeyError")
              /\ UNCHANGED sw_todo
         ELSE /\ switch_cli' = IF present THEN "present" ELSE "absent"
              /\ sw_todo' = DOMAIN self_switches
              /\ pc' = "program_switches"
              /\ UNCHANGED <<exc, exit_code>>
    /\ UNCHANGED <<conf, backend, self_hosts, self_switches, self_links, topo, net,
                   net_state, host_idx, cmds, arp, routes, sw_reads, observed, session,
                   cli_args, runs>>
    /\ UNCHANGED link_vars

\* what the loop does after reading or applying a switch's entries has raised:
\* nothing catches the exception, so the loop, program_switches and run_app are left
after_switch_error(sw_name, e) ==
    /\ Raise(e)
    /\ UNCHANGED sw_todo

\* one iteration of "for sw_name, sw_dict in self.switches.iteritems()", the
\* dictionary's order being unspecified; read_entries raises IOError when the
\* command file cannot be opened
ProgramSwitch ==
    /\ pc = "program_switches"
    /\ \E sw_name \in sw_todo :
         IF ~has_cli_input(self_switches[sw_name])
         THEN /\ sw_todo' = sw_todo \ {sw_name}
              /\ UNCHANGED <<pc, exc, exit_code, sw_reads, observed>>
         ELSE \E readable \in BOOLEAN :
                IF readable
                THEN /\ sw_todo' = sw_todo \ {sw_name}
                     /\ sw_reads' = [sw_reads EXCEPT ![sw_name] = @ + 1]
                     /\ observed' = add_entries(entries_port(sw_name),
                                                read_entries(self_switches[sw_name]))
                     /\ UNCHANGED <<pc, exc, exit_code>>
                ELSE /\ after_switch_error(sw_name, "IOError")
                     /\ UNCHANGED <<sw_reads, observed>>
    /\ UNCHANGED <<conf, backend, self_hosts, self_switches, self_links, topo, net,
                   net_state, host_idx, cmds, arp, routes, switch_cli, session, cli_args,
                   history, runs>>
    /\ UNCHANGED link_vars

----------------------------------------------------------------------------
(* The rest of AppRunner.run_app *)

\* if self.cli_enabled or (self.conf.get('cli', False))
session_requested_Both(cli_enabled, conf_cli) == cli_enabled /\ conf_cli

session_requested(cli_enabled, conf_cli) == cli_enabled \/ conf_cli

\* program_switches has returned; self.save_topology(); sleep(1); then the CLI
\* when cli_enabled or conf['cli']
SaveTopology ==
    /\ pc = "program_switches"
    /\ sw_todo = {}
    /\ history' = history \o <<"program_switches", "save_topology">>
    /\ \E cli_enabled \in BOOLEAN, conf_cli \in BOOLEAN :
         /\ cli_args' = [read |-> TRUE, cli_enabled |-> cli_enabled, conf_cli |-> conf_cli]
         /\ IF session_requested(cli_enabled, conf_cli)
            THEN /\ session' = "active"
                 /\ pc' = "cli"
            ELSE /\ pc' = "stop"
                 /\ UNCHANGED session
    /\ UNCHANGED <<conf, backend, exc, exit_code, self_hosts, self_switches, self_links,
                   topo, net, net_state, host_idx, cmds, arp, routes, switch_cli, sw_todo,
                   sw_reads, observed, runs>>
    /\ UNCHANGED link_vars

\* the user leaves the CLI: do_net_cli returns
CliExit ==
    /\ pc = "cli"
    /\ session' = "exited"
    /\ history' = Append(history, "do_net_cli")
    /\ pc' = "stop"
    /\ UNCHANGED <<conf, backend, exc, exit_code, self_hosts, self_switches, self_links,
                   topo, net, net_state, host_idx, cmds, arp, routes, switch_cli, sw_todo,
                   sw_reads, observed, cli_args, runs>>
    /\ UNCHANGED link_vars

\* self.net.stop(), and main() returns
NetStop ==
    /\ pc = "stop"
    /\ net_state' = "stopped"
    /\ history' = Append(history, "net.stop")
    /\ pc' = "done"
    /\ exit_code' = 0
    /\ UNCHANGED <<conf, backend, exc, self_hosts, self_switches, self_links, topo, net,
                   host_idx, cmds, arp, routes, switch_cli, sw_todo, sw_reads, observed,
                   session, cli_args, runs>>
    /\ UNCHANGED link_vars

Next ==
    \/ Construct
    \/ CreateNetwork
    \/ NetStart
    \/ ProgramHost
    \/ ProgramSwitchesEnter
    \/ ProgramSwitch
    \/ SaveTopology
    \/ CliExit
    \/ NetStop

Spec == Init /\ [][Next]_vars

\* a run in which program_hosts is called again once it has returned
NextRerun ==
    \/ Construct
    \/ CreateNetwork
    \/ NetStart
    \/ ProgramHost
    \/ RerunProgramHosts

SpecRerun == Init /\ [][NextRerun]_vars

----------------------------------------------------------------------------
(* parse_links on its own, over a wider range of link tuples *)

InitLinks ==
    /\ unparsed_links \in
         {<<first>> \o rest : first \in RawLinks, rest \in SeqsUpTo(ExtraLinks, MaxExtraLinks)}
    /\ links_result = [err |-> "unset", links |-> <<>>]
    /\ swapped_result = [err |-> "unset", links |-> <<>>]
    /\ Idle
    /\ conf = NoConf
    /\ backend = <<>>

\* self.links = self.parse_links(topology['links'])
ParseLinks ==
    /\ links_result.err = "unset"
    /\ links_result' = parse_links(unparsed_links)
    /\ UNCHANGED <<unparsed_links, swapped_result>>
    /\ UNCHANGED run_vars

\* the same description with every link declared the other way round
ParseSwapped ==
    /\ swapped_result.err = "unset"
    /\ swapped_result' = parse_links(SwapAll(unparsed_links))
    /\ UNCHANGED <<unparsed_links, links_result>>
    /\ UNCHANGED run_vars

NextLinks ==
    \/ ParseLinks
    \/ ParseSwapped

SpecLinks == InitLinks /\ [][NextLinks]_vars

----------------------------------------------------------------------------
(* Properties of parse_links, checked under SpecLinks *)

Parsed == links_result.err = "none"

BothHosts(link) == link[1][1] = "h" /\ link[2][1] = "h"

\* C1: a description and the same description with every link's endpoints
\* exchanged (optional fields unchanged) give the same outcome of parse_links,
\* record for record, and in every record returned node1 is not greater than
\* node2 in string order.
C1_CanonicalLinks ==
    /\ (links_result.err # "unset" /\ swapped_result.err # "unset")
         => links_result = swapped_result
    /\ \A r \in {links_result, swapped_result} : \A i \in 1..Len(r.links) :
         /\ ~StrGreater(r.links[i].node1, r.links[i].node2)
         /\ {r.links[i].node1, r.links[i].node2}
              = {unparsed_links[i][1], unparsed_links[i][2]}

\* a five-field link declared with the greater endpoint first, parsed both ways
C1_Witness ==
    /\ Parsed
    /\ swapped_result.err = "none"
    /\ Len(unparsed_links[1]) = 5
    /\ StrGreater(unparsed_links[1][1], unparsed_links[1][2])
    /\ links_result.links[1].node1 = unparsed_links[1][2]

\* C2: when some link tuple has two host endpoints, in either declaration order,
\* parse_links fails (its assertion raises) and returns no link list; so no
\* record it returns has two host endpoints.
C2_HostToHostRejected ==
    /\ \A r \in {links_result, swapped_result} :
         /\ (r.err # "unset" /\ \E i \in 1..Len(unparsed_links) : BothHosts(unparsed_links[i]))
              => (r.err = "AssertionError" /\ r.links = <<>>)
         /\ \A i \in 1..Len(r.links) :
              ~(r.links[i].node1[1] = "h" /\ r.links[i].node2[1] = "h")
    /\ (Parsed /\ \A i \in 1..Len(unparsed_links) : ~BothHosts(unparsed_links[i]))
         => Len(links_result.links) = Len(unparsed_links)

\* a host-to-host tuple after a valid one, rejected in both declaration orders
C2_Witness ==
    /\ Len(unparsed_links) = 2
    /\ ~BothHosts(unparsed_links[1])
    /\ BothHosts(unparsed_links[2])
    /\ links_result.err = "AssertionError"
    /\ swapped_result.err = "AssertionError"

\* whether position p of a link tuple is present and truthy
Given(link, p) == Len(link) >= p /\ Truthy(link[p])

\* what a latency value reads as once formatted
Formatted(v) == IF v.t = "str" THEN v ELSE Str(str(v.n) \o <<"m", "s">>)

\* C4: for each optional position, an absent or falsy value leaves the default
\* ('0ms', no bandwidth, weight 1) whatever the other positions hold, and a
\* truthy value replaces the default of that field only.
C4_OptionalFields ==
    Parsed => \A i \in 1..Len(unparsed_links) :
        LET link == unparsed_links[i]
            d == links_result.links[i]
        IN /\ d.latency = IF Given(link, 3) THEN Formatted(link[3])
                          ELSE Str(<<"0", "m", "s">>)
           /\ d.bandwidth = IF Given(link, 4) THEN link[4] ELSE Null
           /\ d.weight = IF Given(link, 5) THEN link[5] ELSE Num(1)

\* weight set while latency and bandwidth are present but falsy
C4_Witness ==
    /\ Parsed
    /\ Len(unparsed_links[1]) = 5
    /\ ~Truthy(unparsed_links[1][3])
    /\ ~Truthy(unparsed_links[1][4])
    /\ Truthy(unparsed_links[1][5])
    /\ links_result.links[1].latency = Str(<<"0", "m", "s">>)
    /\ links_result.links[1].bandwidth = Null
    /\ links_result.links[1].weight = unparsed_links[1][5]

Units == {<<"m", "s">>, <<"u", "s">>, <<"s">>}

\* digits followed by a unit
IsDuration(s) ==
    \E k \in 1..Len(s) :
        /\ \A i \in 1..k : s[i] \in DigitChars
        /\ SubSeq(s, k + 1, Len(s)) \in Units

\* C5 as stated: the latency of every record returned carries an explicit unit.
C5_AlwaysUnit ==
    Parsed => \A i \in 1..Len(links_result.links) :
        /\ links_result.links[i].latency.t = "str"
        /\ IsDuration(links_result.links[i].latency.s)

\* C5, amended: the latency of every record returned is a string; a latency given
\* as a string is passed through unchanged, a bare number n becomes n followed
\* by 'ms'; so it carries a unit unless it was given as a string without one.
C5_LatencyFormat ==
    Parsed => \A i \in 1..Len(links_result.links) :
        LET link == unparsed_links[i]
            latency == links_result.links[i].latency
        IN /\ latency.t = "str"
           /\ (Given(link, 3) /\ link[3].t = "str") => latency = link[3]
           /\ (Given(link, 3) /\ link[3].t = "num")
                => latency.s = str(link[3].n) \o <<"m", "s">>
           /\ ~(Given(link, 3) /\ link[3].t = "str" /\ ~IsDuration(link[3].s))
                => IsDuration(latency.s)

\* a bare number and a string with its unit, both formatted
C5_Witness ==
    /\ Parsed
    /\ Len(unparsed_links) = 1
    /\ Len(unparsed_links[1]) > 2
    /\ unparsed_links[1][3] = Num(5)
    /\ links_result.links[1].latency = Str(<<"5", "m", "s">>)

----------------------------------------------------------------------------
(* Properties of a run, checked under Spec *)

\* the description lacks its topology block or holds a host-to-host link
InvalidTopology ==
    \/ ~conf.topology
    \/ \E i \in 1..Len(conf.links) : BothHosts(conf.links[i])

\* C3: with the topology block missing or a host-to-host link in it, the
\* constructor raises before create_network and net.start are reached: the
\* network is never created, let alone started.
C3_NoNetworkFromInvalidTopology ==
    InvalidTopology =>
        /\ net_state = "none"
        /\ pc \in {"main", "raised"}
        /\ pc = "raised" => exc = IF conf.topology THEN "AssertionError" ELSE "Exception"
        /\ self_links = <<>>

\* the constructor has refused a host-to-host link that follows valid ones
C3_Witness ==
    /\ conf.topology
    /\ Len(conf.links) > 1
    /\ pc = "raised"
    /\ exc = "AssertionError"
    /\ net_state = "none"

\* the hosts of the description, by number
HostsOf(c) == {n \in HostNums : Host(n) \in Range(c.hosts)}

\* the outer loop of program_hosts has handled this host
Provisioned(h) ==
    /\ h \in DOMAIN cmds
    /\ \E i \in 1..Len(topo.hosts) : i < host_idx /\ topo.hosts[i] = h

\* program_hosts has returned
HostsDone == net_state \in {"started", "stopped"} /\ host_idx > Len(topo.hosts)

\* C6: for host h<n> the gateway address named by the gateway ARP entry, the
\* direct route and the default route is 10.0.n.254, whatever the host's own
\* address and switch.
C6_GatewayAddress ==
    \A n \in HostsOf(conf) : Provisioned(Host(n)) =>
        LET log == cmds[Host(n)]
            gw == <<10, 0, n, 254>>
        IN /\ \A i \in 1..Len(log) : log[i].line \in {310, 312, 313} => log[i].ip = gw
           /\ \A line \in {310, 312, 313} : \E i \in 1..Len(log) : log[i].line = line
           /\ \E e \in arp[Host(n)] : e.ip = gw
           /\ routes[Host(n)] = {[dst |-> "direct", ip |-> gw], [dst |-> "default", ip |-> gw]}

\* h10, addressed in 10.0.1.0 or 10.0.2.0 and attached to s2, has been provisioned
C6_Witness ==
    /\ Provisioned(Host(10))
    /\ backend[Host(10)].peer.node = Switch(2)
    /\ backend[Host(10)].ip[3] # 10
    /\ [dst |-> "default", ip |-> <<10, 0, 10, 254>>] \in routes[Host(10)]

\* C7: the gateway ARP entry of a host names the MAC of the interface at the
\* other end of the host's link, never the host's own, whether the host's
\* interface is intf1 or intf2 of the link.
C7_GatewayMac ==
    \A h \in DOMAIN backend : Provisioned(h) =>
        /\ \A i \in 1..Len(cmds[h]) : cmds[h][i].line = 310 =>
             /\ cmds[h][i].mac = backend[h].peer.mac
             /\ cmds[h][i].mac # backend[h].h_iface.mac
        /\ \E i \in 1..Len(cmds[h]) : cmds[h][i].line = 310
        /\ [ip |-> sw_ip(h), mac |-> backend[h].peer.mac] \in arp[h]
        /\ [ip |-> sw_ip(h), mac |-> backend[h].h_iface.mac] \notin arp[h]

\* two provisioned hosts, one at each end of its link object
C7_Witness ==
    \E a, b \in DOMAIN backend :
        /\ Provisioned(a)
        /\ Provisioned(b)
        /\ net[a].link.intf1 = net[a].h_iface
        /\ net[b].link.intf2 = net[b].h_iface
        /\ [ip |-> sw_ip(b), mac |-> backend[b].peer.mac] \in arp[b]

\* the position of the command of a source line in a host's log (0: not issued)
PosOf(log, line) ==
    IF \E i \in 1..Len(log) : log[i].line = line
    THEN CHOOSE i \in 1..Len(log) :
             log[i].line = line /\ \A j \in 1..Len(log) : log[j].line = line => i <= j
    ELSE 0

\* C8 as stated: rename, offload disable, gateway ARP, direct route, default
\* route, subnet-mate ARP, in this order for every host.
C8_OffloadBeforeGatewayArp ==
    \A h \in DOMAIN cmds : Provisioned(h) =>
        LET log == cmds[h] IN
        /\ PosOf(log, 307) < PosOf(log, 311)
        /\ PosOf(log, 311) < PosOf(log, 310)
        /\ PosOf(log, 310) < PosOf(log, 312)
        /\ PosOf(log, 312) < PosOf(log, 313)
        /\ \A i \in 1..Len(log) : log[i].line = 328 => PosOf(log, 313) < i

\* C8, amended: for every host the steps are issued in the fixed order rename,
\* gateway ARP, offload disable, direct route, default route, subnet-mate ARP.
C8_StepOrder ==
    \A h \in DOMAIN cmds : Provisioned(h) =>
        LET log == cmds[h] IN
        /\ Len(log) >= 5
        /\ <<log[1].op, log[1].line>> = <<"rename", 307>>
        /\ <<log[2].op, log[2].line>> = <<"arp", 310>>
        /\ <<log[3].op, log[3].line>> = <<"offload", 311>>
        /\ <<log[4].op, log[4].line>> = <<"route", 312>>
        /\ <<log[5].op, log[5].line>> = <<"default_route", 313>>
        /\ \A i \in 6..Len(log) : <<log[i].op, log[i].line>> = <<"arp", 328>>

\* a host whose sequence ends with a subnet-mate entry
C8_Witness ==
    \E h \in DOMAIN cmds : Len(cmds[h]) = 6 /\ cmds[h][6].line = 328

\* equal networks, said of the octets: equal prefix lengths and equal leading octets
SameNetwork(a, b) ==
    /\ backend[a].mask = backend[b].mask
    /\ SubSeq(backend[a].ip, 1, backend[a].mask \div 8)
         = SubSeq(backend[b].ip, 1, backend[b].mask \div 8)

MateEntry(b) == [ip |-> backend[b].ip, mac |-> backend[b].h_iface.mac]

\* C9: once program_hosts has returned, two distinct hosts on one switch each
\* hold a static ARP entry for the other's address and MAC if their networks
\* are equal, and neither holds one if they differ.
C9_SubnetMates ==
    HostsDone => \A a, b \in DOMAIN backend :
        (a # b /\ backend[a].peer.node = backend[b].peer.node) =>
            IF SameNetwork(a, b)
            THEN MateEntry(b) \in arp[a] /\ MateEntry(a) \in arp[b]
            ELSE /\ \A e \in arp[a] : e.ip # backend[b].ip /\ e.mac # backend[b].h_iface.mac
                 /\ \A e \in arp[b] : e.ip # backend[a].ip /\ e.mac # backend[a].h_iface.mac

\* two hosts on one switch in 10.0.0.0/16 with different third octets hold
\* each other's entry
C9_Witness ==
    /\ HostsDone
    /\ \E a, b \in DOMAIN backend :
         /\ a # b
         /\ backend[a].peer.node = backend[b].peer.node
         /\ backend[a].mask = 16
         /\ backend[b].mask = 16
         /\ backend[a].ip[3] # backend[b].ip[3]
         /\ MateEntry(b) \in arp[a]
         /\ MateEntry(a) \in arp[b]

\* program_switches has returned
SwitchesDone == pc \in {"program_switches", "cli", "stop", "done"} /\ sw_todo = {}

IsPrefix(p, q) == Len(p) <= Len(q) /\ p = SubSeq(q, 1, Len(p))

\* what the port of a switch may receive: the entries of its own command file
OwnEntries(sw) ==
    IF self_switches[sw] = "none" THEN <<>> ELSE FileEntries(self_switches[sw])

\* C10: the port of a switch only ever receives the entries of that switch's own
\* command file, in file order and without repetition; once program_switches has
\* returned, every switch that declares a file has read it once and its port has
\* received exactly the file's entries, in file order.
C10_EntriesInFileOrder ==
    \A sw \in DOMAIN sw_reads :
        /\ IsPrefix(observed[thrift_port(sw)], OwnEntries(sw))
        /\ sw_reads[sw] <= 1
        /\ (SwitchesDone /\ self_switches[sw] # "none") =>
             /\ observed[thrift_port(sw)] = FileEntries(self_switches[sw])
             /\ sw_reads[sw] = 1

\* both switches declare a file, and the run is over: s1 saw A, B, C and s2 saw C, A
C10_Witness ==
    /\ pc = "done"
    /\ observed[thrift_port(Switch(1))] = <<"A", "B", "C">>
    /\ observed[thrift_port(Switch(2))] = <<"C", "A">>

----------------------------------------------------------------------------
(* C11: switches without a command file *)

\* C11: a switch that declares no command file is never read for and its port
\* never receives an entry, whatever the other switches declare; once
\* program_switches has returned, every switch that does declare a file has had
\* it read once and its port holds the file's entries.
C11_NoCommandFileLeftAlone ==
    \A sw \in DOMAIN sw_reads :
        /\ self_switches[sw] = "none" =>
             /\ sw_reads[sw] = 0
             /\ observed[thrift_port(sw)] = <<>>
        /\ (SwitchesDone /\ self_switches[sw] # "none") =>
             /\ sw_reads[sw] = 1
             /\ observed[thrift_port(sw)] # <<>>

\* program_switches has returned for s1 with a file and s2 without: s1 was
\* configured, s2 was visited and left alone
C11_Witness ==
    /\ pc = "stop"
    /\ self_switches[Switch(1)] = "s1-commands.txt"
    /\ self_switches[Switch(2)] = "none"
    /\ sw_reads[Switch(1)] = 1
    /\ observed[thrift_port(Switch(1))] = <<"A", "B", "C">>
    /\ observed[thrift_port(Switch(2))] = <<>>

----------------------------------------------------------------------------
(* C12: the order of run_app *)

Phases ==
    <<"create_network", "net.start", "program_hosts", "program_switches",
      "save_topology", "do_net_cli", "net.stop">>

PhasesNoCli ==
    <<"create_network", "net.start", "program_hosts", "program_switches",
      "save_topology", "net.stop">>

Returned(call) == \E i \in 1..Len(history) : history[i] = call

\* C12: the calls of run_app return in one fixed order, each at most once and
\* none skipped but the optional CLI; a run that ends normally has made them
\* all. No command reaches a host before net.start has returned, no entry
\* reaches a switch before program_hosts has returned, and when program_hosts
\* has returned every host has been given its steps.
C12_PhaseOrder ==
    /\ IsPrefix(history, Phases) \/ IsPrefix(history, PhasesNoCli)
    /\ pc = "done" => history \in {Phases, PhasesNoCli}
    /\ \A h \in DOMAIN cmds : cmds[h] # <<>> => Returned("net.start")
    /\ \A p \in DOMAIN observed : observed[p] # <<>> => Returned("program_hosts")
    /\ \A sw \in DOMAIN sw_reads : sw_reads[sw] > 0 => Returned("program_hosts")
    /\ Returned("program_hosts") =>
         \A h \in DOMAIN cmds : \A line \in {307, 310, 311, 312, 313} :
             \E i \in 1..Len(cmds[h]) : cmds[h][i].line = line
    /\ Returned("save_topology") => sw_todo = {}
    /\ session # "none" => Returned("save_topology")
    /\ net_state = "stopped" <=> Returned("net.stop")

\* a run with two hosts and a CLI session has ended: every call was made
C12_Witness ==
    /\ pc = "done"
    /\ history = Phases
    /\ Len(topo.hosts) = 2
    /\ \A h \in DOMAIN cmds : Len(cmds[h]) >= 5
    /\ observed[thrift_port(Switch(1))] # <<>>

----------------------------------------------------------------------------
(* C13: stopping the network *)

Ended == pc \in {"done", "raised", "exited"}

\* C13: a run that has started the network does not end without stopping it,
\* whatever was raised after the start.
C13_StopUnconditional ==
    (Ended /\ Returned("net.start")) => net_state = "stopped"

----------------------------------------------------------------------------
(* C14, C15: a failure in one iteration of a provisioning loop *)

\* C14: when a step of program_hosts has failed for a host, every other host
\* of the topology has nevertheless been given its whole sequence of steps.
C14_OtherHostsProvisioned ==
    (pc = "raised" /\ exc = "ProvisioningError") =>
        \A i \in 1..Len(topo.hosts) :
            i # host_idx => cmds[topo.hosts[i]] = host_commands(topo.hosts[i])

\* C15: when reading or applying the entries of a switch has failed, every other
\* switch that declares a command file has nevertheless had its entries applied:
\* at most the failing switch lacks them.
C15_OtherSwitchesLoaded ==
    (pc = "raised" /\ exc = "IOError") =>
        Cardinality({sw \in DOMAIN self_switches :
                       /\ self_switches[sw] # "none"
                       /\ observed[thrift_port(sw)] # FileEntries(self_switches[sw])}) <= 1

----------------------------------------------------------------------------
(* C16: multihomed hosts *)

\* the links of the configuration that attach host h to a switch
SwitchLinksOf(h) ==
    {i \in 1..Len(conf.links) :
        \/ conf.links[i][1] = h /\ conf.links[i][2][1] = "s"
        \/ conf.links[i][2] = h /\ conf.links[i][1][1] = "s"}

Multihomed(h) == Cardinality(SwitchLinksOf(h)) > 1

----------------------------------------------------------------------------
(* C17: program_hosts run again *)

RunsComplete == pc = "program_hosts" /\ host_idx > Len(topo.hosts)

\* the commands a host was given in the first run of program_hosts
FirstRun(h) == SubSeq(cmds[h], 1, Len(host_commands(h)))

\* C17: when program_hosts has been run again on the started network, every
\* host was given the same commands as in the first run, and its ARP entries
\* and routes are those the first run left: as sets, and as lists, in which no
\* entry stands twice.
C17_Idempotent ==
    (RunsComplete /\ runs >= 2) =>
        \A h \in DOMAIN cmds :
            /\ Len(cmds[h]) = runs * Len(host_commands(h))
            /\ TablesAfter(NoTables, cmds[h]) = TablesAfter(NoTables, FirstRun(h))
            /\ arp[h] = ArpAfter({}, FirstRun(h))
            /\ routes[h] = RoutesAfter({}, FirstRun(h))
            /\ Len(TablesAfter(NoTables, cmds[h]).arp) = Cardinality(arp[h])
            /\ Len(TablesAfter(NoTables, cmds[h]).routes) = 2

\* two subnet mates on s1 have been provisioned twice: each holds the gateway's
\* entry and its mate's
C17_Witness ==
    /\ RunsComplete
    /\ runs = 2
    /\ Len(topo.hosts) = 2
    /\ \A h \in DOMAIN cmds : Len(cmds[h]) = 12 /\ Cardinality(arp[h]) = 2

----------------------------------------------------------------------------
(* C18: the exit status *)

\* C18: the exit status is 0 only when the run completed, the network started
\* and stopped; a run that ends at a compilation failure or at an invalid
\* configuration ends with a nonzero status and without a network.
C18_ZeroOnlyOnCompletion ==
    /\ exit_code = 0 => (pc = "done" /\ net_state = "stopped")
    /\ pc = "exited" => (exit_code # 0 /\ net_state = "none")
    /\ (InvalidTopology /\ Ended) => (exit_code # 0 /\ net_state = "none")

----------------------------------------------------------------------------
(* C19: the interactive session *)

Requested == cli_args.cli_enabled \/ cli_args.conf_cli

SavedThenStopped ==
    <<"create_network", "net.start", "program_hosts", "program_switches", "save_topology">>

\* C19: the CLI is entered only when cli_enabled or conf['cli'] asks for it,
\* and then it is entered; the network is never stopped while the session is
\* active. Without a request nothing comes between save_topology and net.stop;
\* with one, net.stop is called only once the session has exited.
C19_SessionOnlyWhenRequested ==
    /\ session # "none" => (cli_args.read /\ Requested)
    /\ session = "active" <=> pc = "cli"
    /\ session = "active" => net_state = "started"
    /\ (cli_args.read /\ ~Requested) =>
         /\ session = "none"
         /\ pc \in {"stop", "done"}
         /\ history \in {SavedThenStopped, PhasesNoCli}
    /\ (cli_args.read /\ Requested) =>
         /\ session \in {"active", "exited"}
         /\ pc \in {"cli", "stop", "done"}
         /\ pc \in {"stop", "done"} => (session = "exited" /\ Returned("do_net_cli"))
         /\ net_state = "stopped" => history = Phases

\* a session asked for by cli_enabled alone has been held and left, and the
\* network stopped after it
C19_Witness ==
    /\ pc = "done"
    /\ cli_args.cli_enabled
    /\ ~cli_args.conf_cli
    /\ session = "exited"
    /\ net_state = "stopped"

----------------------------------------------------------------------------
(* C20: no switch declares a command file *)

NoCommandFiles == \A sw \in DOMAIN self_switches : self_switches[sw] = "none"

\* C20: when no switch declares a command file, program_switches, once entered,
\* raises nothing and sends nothing, whatever the configuration holds besides.
C20_NoCommandFilesNoError ==
    (NoCommandFiles /\ switch_cli # "unread") =>
        /\ pc # "raised"
        /\ \A p \in DOMAIN observed : observed[p] = <<>>

----------------------------------------------------------------------------
(* C21: whom a subnet-mate entry may name *)

\* the commands of the inner loop (line 328) issued to host a so far
MateCommands(a) == {cmds[a][i] : i \in {k \in 1..Len(cmds[a]) : cmds[a][k].line = 328}}

OnSameSwitch(a, b) == backend[a].peer.node = backend[b].peer.node

\* C21: every subnet-mate arp command issued to a host names the address and
\* MAC of another host attached to the same switch; none names the host's own
\* address, and none names a host on another switch, shared network or not.
\* The host's ARP table holds no host's entry but those of such mates.
C21_MatesOnSameSwitchOnly ==
    \A a \in DOMAIN cmds :
        /\ \A c \in MateCommands(a) :
             /\ c.ip # backend[a].ip
             /\ \E b \in DOMAIN backend :
                  /\ b # a
                  /\ OnSameSwitch(a, b)
                  /\ c.ip = backend[b].ip
                  /\ c.mac = backend[b].h_iface.mac
        /\ \A b \in DOMAIN backend :
             (b = a \/ ~OnSameSwitch(a, b)) =>
                 \A e \in arp[a] : e.ip # backend[b].ip /\ e.mac # backend[b].h_iface.mac

\* two hosts in one network, attached to different switches, have both been
\* provisioned: neither was given an entry for the other
C21_Witness ==
    /\ HostsDone
    /\ \E a, b \in DOMAIN backend :
         /\ a # b
         /\ ~OnSameSwitch(a, b)
         /\ SameNetwork(a, b)
         /\ Len(cmds[a]) = 5
         /\ Len(cmds[b]) = 5
         /\ Cardinality(arp[a]) = 1
         /\ Cardinality(arp[b]) = 1

====
